---- MODULE Spec2Model ----
(***************************************************************************)
(* Boolean-expression index (be_indexer): the index builder, the default   *)
(* entries holder and the K-groups retrieval, as a state machine.          *)
(*                                                                         *)
(* Source under src/: entries_holder.go (DefaultEntriesHolder, lines 1-120,*)
(* and IndexerBuilder, lines 122-430) and unnamed/part_000 (tests, lines   *)
(* 1-248, and indexBase / collector pool, lines 250-387).  Code of the     *)
(* repository that is not under src/ (entry-id packing, the container, the *)
(* transaction data, Retrieve / retrieveK, the collector, the value        *)
(* parser) is modelled from the specification text.                        *)
(***************************************************************************)
EXTENDS Integers, Sequences, FiniteSets, TLC

VARIABLES
    fieldsData,       \* IndexerBuilder.fieldsData : field -> FieldDesc
    indexes,          \* heap of the index objects still referenced; IndexerBuilder.indexer is the last one
    builderCache,     \* BuilderOption.builderCache : NoCache (nil) or a provider, ConjID -> bytes
    badConjBehavior,  \* BuilderOption.badConjBehavior
    indexerType,      \* BuilderOption.indexerType
    ret,              \* outcome of the last call
    holder,           \* a DefaultEntriesHolder used directly (outside an index)
    hret,             \* outcome of the last build-side call on holder
    calls,            \* goroutine -> its GetEntries call on holder
    collectors,       \* the DocIDCollector objects made so far: id -> content
    pool,             \* collectorPool: the ids of the collectors in the pool
    held,             \* goroutine -> the collectors it picked and has not put back
    putting,          \* goroutine -> the collector its PutCollector is returning (0: none)
    pret,             \* outcome of the last PickCollector / PutCollector step
    rk                \* a retrieveK run: [pc, K, input, groups, out] and, as history,
                      \* skipped / vetoed: a skip-ahead / an exclusion took place

builderVars == <<fieldsData, indexes, builderCache, badConjBehavior, indexerType, ret>>
holderVars == <<holder, hret, calls>>
poolVars == <<collectors, pool, held, putting, pret>>
rkVars == <<rk>>
vars == <<builderVars, holderVars, poolVars, rkVars>>
notBuilder == <<holderVars, poolVars, rkVars>>
notHolder == <<builderVars, poolVars, rkVars>>
notPool == <<builderVars, holderVars, rkVars>>
notRK == <<builderVars, holderVars, poolVars>>

(***************************************************************************)
(* Bounds of the model.                                                    *)
(***************************************************************************)
MaxAdds == 2        \* AddDocument calls that reach buildDocEntries
MaxResets == 1      \* Reset calls
MaxVal == 2         \* well-typed field values are 1..MaxVal
MaxCollectors == 2  \* DocIDCollector objects the pool's New function makes
MaxHolderCalls == 2 \* AppendEntryID / AddFieldEID calls made directly on a holder

FieldSeq == <<"A", "B">>
Fields == {FieldSeq[i] : i \in DOMAIN FieldSeq}
BadValue == MaxVal + 1     \* a value the field's parser rejects (ill-typed)

(***************************************************************************)
(* Program constants.                                                      *)
(***************************************************************************)
ErrorBadConj == 0
SkipBadConj == 1
PanicBadConj == 2
IndexerTypeDefault == 0
IndexerTypeCompact == 1
MaxDocConjs == 255         \* 0xFF
HolderNameDefault == "default"
\* CacheProvider: [provider, data]; provider = FALSE is the nil interface
NoCache == [provider |-> FALSE, data |-> << >>]
EmptyCache == [provider |-> TRUE, data |-> << >>]

(***************************************************************************)
(* Small helpers.                                                          *)
(***************************************************************************)
Perms(S) == {s \in [1..Cardinality(S) -> S] : \A i, j \in 1..Cardinality(S) : i # j => s[i] # s[j]}

Range(s) == {s[i] : i \in DOMAIN s}

RECURSIVE SumSeq(_)
SumSeq(s) == IF s = << >> THEN 0 ELSE Head(s) + SumSeq(Tail(s))

RECURSIVE SetToSeq(_)
SetToSeq(S) == IF S = {} THEN << >>
               ELSE LET m == CHOOSE x \in S : \A y \in S : x <= y
                    IN  <<m>> \o SetToSeq(S \ {m})

(***************************************************************************)
(* Entry-id packing.  ConjID = (DocID, ConjIndex: 8 bits, Size: 8 bits),   *)
(* EntryID = (ConjID, inclusion flag in the least significant bit).        *)
(***************************************************************************)
NewConjID(docID, idx, size) == docID * 65536 + (idx % 256) * 256 + (size % 256)
ConjSize(conjID) == conjID % 256
ConjDocID(conjID) == conjID \div 65536
NewEntryID(conjID, incl) == conjID * 2 + (IF incl THEN 1 ELSE 0)
GetConjID(eid) == eid \div 2
IsInclude(eid) == eid % 2 = 1
NewKey(fieldID, id) == <<fieldID, id>>

(***************************************************************************)
(* Value parser: ParseValue (build side) and ParseAssign (query side) map  *)
(* a well-typed value to its token ids and reject an ill-typed one.        *)
(***************************************************************************)
TokenOf(v) == MaxVal + v
ParseValue(v) == IF v \in 1..MaxVal THEN [err |-> FALSE, ids |-> <<TokenOf(v)>>]
                 ELSE [err |-> TRUE, ids |-> << >>]
ParseAssign(v) == IF v \in 1..MaxVal THEN [err |-> FALSE, ids |-> <<TokenOf(v)>>]
                  ELSE [err |-> TRUE, ids |-> << >>]

(***************************************************************************)
(* Documents.  A conjunction is its Expressions map: field -> sequence of  *)
(* boolean expressions [Incl, Value]; a document is [ID, Cons].            *)
(***************************************************************************)
In(values) == [Incl |-> TRUE, Value |-> values]
NotIn(values) == [Incl |-> FALSE, Value |-> values]
Conj1(f, exprs) == [x \in {f} |-> exprs]
Conj2(f, e1, g, e2) == [x \in {f, g} |-> IF x = f THEN e1 ELSE e2]
EmptyConj == [x \in {} |-> << >>]
Doc(id, cons) == [ID |-> id, Cons |-> cons]

\* Conjunction.CalcConjSize: the number of Incl = true expressions
CalcConjSize(conj) ==
    Cardinality({p \in UNION {{<<f, i>> : i \in DOMAIN conj[f]} : f \in DOMAIN conj} :
                    conj[p[1]][p[2]].Incl})

(***************************************************************************)
(* DefaultEntriesHolder: [plEntries : Key -> Entries, maxLen, avgLen].     *)
(***************************************************************************)
NewDefaultEntriesHolder == [plEntries |-> << >>, maxLen |-> 0, avgLen |-> 0]

MapPut(m, k, v) == [x \in DOMAIN m \cup {k} |-> IF x = k THEN v ELSE m[x]]

\* faulty variant: the entry replaces the posting list instead of being appended to it
AppendEntryID_Overwrite(pl, key, id) == MapPut(pl, key, <<id>>)

\* faulty variant: the append is made on the list just stored
AppendEntryID_Double(pl, key, id) ==
    MapPut(pl, key, Append(IF key \in DOMAIN pl THEN pl[key] ELSE <<id>>, id))

\* h.plEntries after AppendEntryID(key, id)
AppendEntryID(pl, key, id) ==
    LET hit     == key \in DOMAIN pl
        entries == IF hit THEN pl[key] ELSE << >>          \* nil slice when absent
        pl1     == IF ~hit THEN MapPut(pl, key, <<id>>) ELSE pl
    IN  MapPut(pl1, key, Append(entries, id))

\* sort.Sort(entries): ascending by EntryID, duplicates kept
RECURSIVE SortEntries(_)
SortEntries(s) ==
    IF s = << >> THEN << >>
    ELSE LET i == CHOOSE i \in DOMAIN s : \A j \in DOMAIN s : s[i] <= s[j]
         IN  <<s[i]>> \o SortEntries([j \in 1..(Len(s) - 1) |-> IF j < i THEN s[j] ELSE s[j + 1]])

Max(a, b) == IF a < b THEN b ELSE a

RECURSIVE SumLens(_, _)
SumLens(pl, keys) ==
    IF keys = {} THEN 0
    ELSE LET k == CHOOSE k \in keys : TRUE IN Len(pl[k]) + SumLens(pl, keys \ {k})

\* faulty variant: the statistics are computed, the posting lists are left as inserted
makeEntriesSorted_NoSort(h) ==
    [h EXCEPT !.maxLen = Max(h.maxLen, Cardinality(DOMAIN h.plEntries))]

makeEntriesSorted(h) ==
    LET lens  == {Len(h.plEntries[k]) : k \in DOMAIN h.plEntries}
        total == SumLens(h.plEntries, DOMAIN h.plEntries)
        mx    == IF lens = {} THEN h.maxLen
                 ELSE Max(h.maxLen, CHOOSE n \in lens : \A m \in lens : m <= n)
    IN  [plEntries |-> [k \in DOMAIN h.plEntries |-> SortEntries(h.plEntries[k])],
         maxLen    |-> mx,
         avgLen    |-> IF Cardinality(DOMAIN h.plEntries) > 0
                       THEN total \div Cardinality(DOMAIN h.plEntries) ELSE h.avgLen]

CompileEntries(h) == makeEntriesSorted(h)

(***************************************************************************)
(* Index object (indexBase + K-groups containers):                         *)
(*   containers      : K -> DefaultEntriesHolder, one container per size   *)
(*   wildcardEntries : entries of the K = 0 conjunctions                   *)
(*   fieldsRef       : TRUE once setFieldDesc stored the builder's map     *)
(*                     (the map itself, not a copy)                        *)
(*   returned        : TRUE once BuildIndex handed the object to a caller  *)
(*   kind            : which constructor made the object                   *)
(* and, as history of the object, docs (the documents buildDocEntries ran  *)
(* on for it) and nbuilt (Len(docs) at its last BuildIndex, -1 before).    *)
(***************************************************************************)
NewKGroupsBEIndex ==
    [containers |-> << >>, wildcardEntries |-> << >>, fieldsRef |-> FALSE, returned |-> FALSE,
     docs |-> << >>, nbuilt |-> -1, kind |-> "kgroups"]

\* the compacted index: the same index interface; its layout is not modelled
NewCompactedBEIndex == [NewKGroupsBEIndex EXCEPT !.kind = "compacted"]

\* initIndexer(): the new index object b.indexer becomes
initIndexer(t) == IF t = IndexerTypeDefault THEN NewKGroupsBEIndex ELSE NewCompactedBEIndex

setFieldDesc(ix) == [ix EXCEPT !.fieldsRef = TRUE]

\* faulty variant: the append is made on a copy and lost
addWildcardEID_Lost(ix, id) == ix

addWildcardEID(ix, id) == [ix EXCEPT !.wildcardEntries = Append(ix.wildcardEntries, id)]

\* newContainer(k): the container of size k, created on first use
newContainer(ix, k) ==
    IF k \in DOMAIN ix.containers THEN ix
    ELSE [ix EXCEPT !.containers = MapPut(ix.containers, k, NewDefaultEntriesHolder)]

\* compileIndexer: every holder compiles
compileIndexer(ix) ==
    [ix EXCEPT !.containers = [k \in DOMAIN ix.containers |-> CompileEntries(ix.containers[k])]]

(***************************************************************************)
(* Transactions of the default holder.  TxData is the token-id list of one *)
(* expression; a transaction is [field, K, EID, Data].                     *)
(***************************************************************************)
RECURSIVE ParseValues(_)
ParseValues(values) ==
    IF values = << >> THEN [err |-> FALSE, ids |-> << >>]
    ELSE LET r == ParseValue(Head(values)) IN
         IF r.err THEN r
         ELSE LET rest == ParseValues(Tail(values)) IN
              IF rest.err THEN rest ELSE [err |-> FALSE, ids |-> r.ids \o rest.ids]

IndexingBETx(desc, expr) == ParseValues(expr.Value)

BetterToCache(txData) == TRUE

\* TxData.Encode / holder.DecodeTxData: length-prefixed id list
Encode(data) == <<Len(data)>> \o data
DecodeTxData(bytes) ==
    IF bytes # << >> /\ Head(bytes) = Len(bytes) - 1
    THEN [err |-> FALSE, data |-> Tail(bytes)]
    ELSE [err |-> TRUE, data |-> << >>]

RECURSIVE CommitIds(_, _, _, _)
CommitIds(pl, fieldID, ids, eid) ==
    IF ids = << >> THEN pl
    ELSE CommitIds(AppendEntryID(pl, NewKey(fieldID, Head(ids)), eid), fieldID, Tail(ids), eid)

\* tx.holder.CommitIndexingBETx(tx): every token id of the transaction gets the entry
CommitIndexingBETx(ix, tx) ==
    [ix EXCEPT !.containers[tx.K].plEntries = CommitIds(@, tx.fieldID, tx.Data, tx.EID)]

RECURSIVE CommitAll(_, _)
CommitAll(ix, txs) ==
    IF txs = << >> THEN ix ELSE CommitAll(CommitIndexingBETx(ix, Head(txs)), Tail(txs))

(***************************************************************************)
(* IndexerBuilder.  The operators work on the builder's mutable parts,     *)
(* b = [fieldsData, ix, cache], ix being the index object b.indexer.       *)
(***************************************************************************)
\* faulty variant: the ids are counted from one
NextFieldID_FromOne(fd) == Cardinality(DOMAIN fd) + 1

NextFieldID(fd) == Cardinality(DOMAIN fd)

\* faulty variant: a second configuration replaces the descriptor before it fails
configureField_Replace(fd, field, option) ==
    [fieldsData |-> MapPut(fd, field, [ID |-> NextFieldID(fd), Field |-> field, option |-> option]),
     err |-> field \in DOMAIN fd]

configureField(fd, field, option) ==
    IF field \in DOMAIN fd
    THEN [fieldsData |-> fd, err |-> TRUE]
    ELSE LET opt  == IF option.Container = ""
                     THEN [option EXCEPT !.Container = HolderNameDefault] ELSE option
             desc == [ID |-> NextFieldID(fd), Field |-> field, option |-> opt]
         IN  [fieldsData |-> MapPut(fd, field, desc), err |-> FALSE]

createFieldData(fd, field) ==
    IF field \in DOMAIN fd THEN fd
    ELSE configureField(fd, field, [Parser |-> "", Container |-> HolderNameDefault]).fieldsData

\* faulty variant: the ceiling is off by one
InvalidConjCount_OffByOne(n) == n = 0 \/ n >= MaxDocConjs

InvalidConjCount(n) == n = 0 \/ n > MaxDocConjs

\* validDocument(doc) returns an error
validDocument(doc) == InvalidConjCount(Len(doc.Cons))

\* the (field, expr) pairs of a conjunction in the order the two nested loops
\* visit them; order is the iteration order of the map conj.Expressions
RECURSIVE ExprPairs(_, _)
ExprPairs(conj, order) ==
    IF order = << >> THEN << >>
    ELSE [i \in DOMAIN conj[Head(order)] |-> [field |-> Head(order), expr |-> conj[Head(order)][i]]]
         \o ExprPairs(conj, Tail(order))

\* faulty variant: the inclusion flag of the expression is lost
TxEntryID_AlwaysInclude(conjID, expr) == NewEntryID(conjID, TRUE)

TxEntryID(conjID, expr) == NewEntryID(conjID, expr.Incl)

RECURSIVE indexingPairs(_, _, _, _, _)
indexingPairs(fd, pairs, conjID, txs, needCacheCnt) ==
    IF pairs = << >>
    THEN [fieldsData |-> fd, txs |-> txs, needCache |-> needCacheCnt > 0, err |-> FALSE]
    ELSE LET p    == Head(pairs)
             fd1  == createFieldData(fd, p.field)
             desc == fd1[p.field]
             r    == IndexingBETx(desc, p.expr)
         IN  IF r.err
             THEN [fieldsData |-> fd1, txs |-> << >>, needCache |-> FALSE, err |-> TRUE]
             ELSE indexingPairs(fd1, Tail(pairs), conjID,
                     Append(txs, [field |-> p.field, fieldID |-> desc.ID, K |-> ConjSize(conjID),
                                  EID |-> TxEntryID(conjID, p.expr), Data |-> r.ids]),
                     needCacheCnt + (IF BetterToCache(r.ids) THEN 1 ELSE 0))

\* indexingConjunction(conj, conjID): [b, txs, needCache, err]
indexingConjunction(b, conj, conjID, order) ==
    LET ix1 == newContainer(b.ix, ConjSize(conjID))
        r   == indexingPairs(b.fieldsData, ExprPairs(conj, order), conjID, << >>, 0)
    IN  [b |-> [b EXCEPT !.ix = ix1, !.fieldsData = r.fieldsData],
         txs |-> r.txs, needCache |-> r.needCache, err |-> r.err]

RECURSIVE cachedTxs(_, _, _, _, _)
cachedTxs(fd, fieldData, order, conjID, txs) ==
    IF order = << >> THEN [fieldsData |-> fd, txs |-> txs]
    ELSE LET field == Head(order)
             fd1   == createFieldData(fd, field)
             d     == DecodeTxData(fieldData[field].Data)
         IN  IF d.err THEN [fieldsData |-> fd1, txs |-> << >>]
             ELSE cachedTxs(fd1, fieldData, Tail(order), conjID,
                     Append(txs, [field |-> field, fieldID |-> fd1[field].ID, K |-> ConjSize(conjID),
                                  EID |-> fieldData[field].Eid, Data |-> d.data]))

\* tryUseIndexingTxCache(conjID): [b, txs], txs empty (nil) on a miss;
\* order is the iteration order of the map txCache.FieldData
tryUseIndexingTxCache(b, conjID, order) ==
    IF ~b.cache.provider THEN [b |-> b, txs |-> << >>]
    ELSE IF conjID \notin DOMAIN b.cache.data THEN [b |-> b, txs |-> << >>]
    ELSE LET ix1 == newContainer(b.ix, ConjSize(conjID))
             r   == cachedTxs(b.fieldsData, b.cache.data[conjID], order, conjID, << >>)
         IN  [b |-> [b EXCEPT !.ix = ix1, !.fieldsData = r.fieldsData], txs |-> r.txs]

\* txCache.FieldData after the loop over txs: one slot per field name
RECURSIVE FieldDataOf(_, _)
FieldDataOf(txs, acc) ==
    IF txs = << >> THEN acc
    ELSE FieldDataOf(Tail(txs),
            MapPut(acc, Head(txs).field, [Eid |-> Head(txs).EID, Data |-> Encode(Head(txs).Data)]))

\* tryCacheIndexingTx(conjID, txs): the cache afterwards
tryCacheIndexingTx(cache, conjID, txs) ==
    IF ~cache.provider THEN cache
    ELSE [cache EXCEPT !.data = MapPut(@, conjID, FieldDataOf(txs, << >>))]

\* one iteration of ConjLoop: the set of outcomes [b, stop, err, panic], one per
\* iteration order of the maps involved
buildConj(b, bad, doc, idx) ==
    LET conj    == doc.Cons[idx]
        incSize == CalcConjSize(conj)
        conjID  == NewConjID(doc.ID, idx - 1, incSize)
        b1      == IF incSize = 0
                   THEN [b EXCEPT !.ix = addWildcardEID(b.ix, NewEntryID(conjID, TRUE))]
                   ELSE b
        hitOrders == IF b1.cache.provider /\ conjID \in DOMAIN b1.cache.data
                     THEN Perms(DOMAIN b1.cache.data[conjID]) ELSE {<< >>}
        Commit(bb, txs) == [b |-> [bb EXCEPT !.ix = CommitAll(bb.ix, txs)],
                            stop |-> FALSE, err |-> FALSE, panic |-> FALSE]
        Miss(bb, order) ==
            LET r == indexingConjunction(bb, conj, conjID, order) IN
            IF r.err
            THEN IF bad = SkipBadConj
                 THEN [b |-> r.b, stop |-> FALSE, err |-> FALSE, panic |-> FALSE]
                 ELSE IF bad = ErrorBadConj
                 THEN [b |-> r.b, stop |-> TRUE, err |-> TRUE, panic |-> FALSE]
                 ELSE [b |-> r.b, stop |-> TRUE, err |-> FALSE, panic |-> TRUE]
            ELSE Commit([r.b EXCEPT !.cache = IF r.needCache
                                              THEN tryCacheIndexingTx(r.b.cache, conjID, r.txs)
                                              ELSE r.b.cache],
                        r.txs)
    IN  UNION { LET c == tryUseIndexingTxCache(b1, conjID, ho) IN
                IF c.txs # << >> THEN {Commit(c.b, c.txs)}
                ELSE {Miss(c.b, order) : order \in Perms(DOMAIN conj)}
              : ho \in hitOrders }

\* ConjLoop over doc.Cons[lo..hi]: the set of outcomes [b, stop, err, panic].
\* The iterations run in order; the range is halved only to evaluate it.
RECURSIVE ConjLoop(_, _, _, _, _)
ConjLoop(b, bad, doc, lo, hi) ==
    IF lo = hi THEN buildConj(b, bad, doc, lo)
    ELSE LET mid == (lo + hi) \div 2 IN
         UNION { IF o.stop THEN {o} ELSE ConjLoop(o.b, bad, doc, mid + 1, hi)
               : o \in ConjLoop(b, bad, doc, lo, mid) }

\* buildDocEntries(doc): the set of outcomes [b, err, panic]
buildDocEntries(b, bad, doc) ==
    {[b |-> o.b, err |-> o.err, panic |-> o.panic] : o \in ConjLoop(b, bad, doc, 1, Len(doc.Cons))}

(***************************************************************************)
(* Query side of the holder.  A cursor is [key, entries, pos]; it is live  *)
(* while pos <= Len(entries).                                              *)
(***************************************************************************)
getEntries(h, key) == IF key \in DOMAIN h.plEntries THEN h.plEntries[key] ELSE << >>

NewEntriesCursor(qkey, entries) == [key |-> qkey, entries |-> entries, pos |-> 1]

RECURSIVE CursorsOfIds(_, _, _, _)
CursorsOfIds(h, desc, vi, ids) ==
    IF ids = << >> THEN << >>
    ELSE LET entries == getEntries(h, NewKey(desc.ID, Head(ids)))
         IN  (IF Len(entries) > 0 THEN <<NewEntriesCursor(<<desc.Field, vi>>, entries)>> ELSE << >>)
             \o CursorsOfIds(h, desc, vi, Tail(ids))

\* GetEntries(field, assigns): [err, r], r the cursor group
RECURSIVE GetEntriesFrom(_, _, _, _)
GetEntriesFrom(h, desc, assigns, r) ==
    IF assigns = << >> THEN [err |-> FALSE, r |-> r]
    ELSE LET p == ParseAssign(Head(assigns)) IN
         IF p.err THEN [err |-> TRUE, r |-> << >>]
         ELSE GetEntriesFrom(h, desc, Tail(assigns), r \o CursorsOfIds(h, desc, Head(assigns), p.ids))

GetEntries(h, desc, assigns) == GetEntriesFrom(h, desc, assigns, << >>)

\* faulty variant: a list handed to a cursor is taken out of the holder
GetEntriesStep_Consuming(h, c) ==
    IF c.vi > Len(c.assigns) THEN [h |-> h, c |-> [c EXCEPT !.pc = "done"]]
    ELSE LET p == ParseAssign(c.assigns[c.vi]) IN
         IF p.err THEN [h |-> h, c |-> [c EXCEPT !.pc = "done", !.r = << >>, !.err = TRUE]]
         ELSE [h |-> [h EXCEPT !.plEntries =
                         [k \in DOMAIN @ |-> IF k \in {NewKey(c.desc.ID, p.ids[i]) : i \in DOMAIN p.ids}
                                             THEN << >> ELSE @[k]]],
               c |-> [c EXCEPT !.vi = @ + 1,
                               !.r = @ \o CursorsOfIds(h, c.desc, c.assigns[c.vi], p.ids)]]

\* faulty variant: the error is returned with the cursors collected so far
GetEntriesStep_Partial(h, c) ==
    IF c.vi > Len(c.assigns) THEN [h |-> h, c |-> [c EXCEPT !.pc = "done"]]
    ELSE LET p == ParseAssign(c.assigns[c.vi]) IN
         IF p.err THEN [h |-> h, c |-> [c EXCEPT !.pc = "done", !.err = TRUE]]
         ELSE [h |-> h,
               c |-> [c EXCEPT !.vi = @ + 1,
                               !.r = @ \o CursorsOfIds(h, c.desc, c.assigns[c.vi], p.ids)]]

\* one turn of the loop over assigns of a GetEntries call c = [desc, assigns, vi,
\* r, err, pc], or its return: [h, c], h being the holder afterwards (the call
\* assigns only its locals and results)
GetEntriesStep(h, c) ==
    IF c.vi > Len(c.assigns) THEN [h |-> h, c |-> [c EXCEPT !.pc = "done"]]
    ELSE LET p == ParseAssign(c.assigns[c.vi]) IN
         IF p.err THEN [h |-> h, c |-> [c EXCEPT !.pc = "done", !.r = << >>, !.err = TRUE]]
         ELSE [h |-> h,
               c |-> [c EXCEPT !.vi = @ + 1,
                               !.r = @ \o CursorsOfIds(h, c.desc, c.assigns[c.vi], p.ids)]]

(***************************************************************************)
(* Build side of the holder used directly.                                 *)
(***************************************************************************)
\* the inner loop of AddFieldEID: every token id of one value gets the entry
RECURSIVE AddFieldIDs(_, _, _, _)
AddFieldIDs(pl, fieldID, ids, eid) ==
    IF ids = << >> THEN pl
    ELSE AddFieldIDs(AppendEntryID(pl, NewKey(fieldID, Head(ids)), eid), fieldID, Tail(ids), eid)

\* AddFieldEID(field, values, eid): [pl, err], pl being h.plEntries afterwards
RECURSIVE AddFieldEID(_, _, _, _)
AddFieldEID(pl, desc, values, eid) ==
    IF values = << >> THEN [pl |-> pl, err |-> FALSE]
    ELSE LET p == ParseValue(Head(values)) IN
         IF p.err THEN [pl |-> pl, err |-> TRUE]
         ELSE AddFieldEID(AddFieldIDs(pl, desc.ID, p.ids, eid), desc, Tail(values), eid)

(***************************************************************************)
(* retrieveK: the cursor-advance loop over the cursor groups of one size K.*)
(***************************************************************************)
Live(c) == c.pos <= Len(c.entries)
CurEntry(c) == c.entries[c.pos]
GroupLive(g) == \E i \in DOMAIN g : Live(g[i])
\* group-current: the smallest EntryID among the live cursors of the group
GroupCurrent(g) ==
    LET cur == {CurEntry(g[i]) : i \in {j \in DOMAIN g : Live(g[j])}}
    IN  CHOOSE e \in cur : \A x \in cur : e <= x

RECURSIVE SortGroups(_)
SortGroups(gs) ==
    IF gs = << >> THEN << >>
    ELSE LET i == CHOOSE i \in DOMAIN gs :
                    \A j \in DOMAIN gs : \/ GroupCurrent(gs[i]) < GroupCurrent(gs[j])
                                          \/ (GroupCurrent(gs[i]) = GroupCurrent(gs[j]) /\ i <= j)
         IN  <<gs[i]>> \o SortGroups([j \in 1..(Len(gs) - 1) |-> IF j < i THEN gs[j] ELSE gs[j + 1]])

\* faulty variant: the cursor lands behind the target
RECURSIVE SkipTo_Beyond(_, _)
SkipTo_Beyond(c, conjID) ==
    IF Live(c) /\ GetConjID(CurEntry(c)) <= conjID THEN SkipTo_Beyond([c EXCEPT !.pos = @ + 1], conjID) ELSE c

\* the cursor moved to its first entry whose ConjunctionID is >= conjID
RECURSIVE SkipTo(_, _)
SkipTo(c, conjID) ==
    IF Live(c) /\ GetConjID(CurEntry(c)) < conjID THEN SkipTo([c EXCEPT !.pos = @ + 1], conjID) ELSE c

\* faulty variant: the cursors standing on conjID stay there
AdvancePast_Stay(g, conjID) == g

\* every cursor of the group standing on conjID moved strictly past it
AdvancePast(g, conjID) ==
    [i \in DOMAIN g |-> IF Live(g[i]) /\ GetConjID(CurEntry(g[i])) = conjID
                        THEN SkipTo(g[i], conjID + 1) ELSE g[i]]

\* one step of the loop on st = [groups, out]; groups are the live groups, sorted
retrieveKStep(st, K) ==
    LET gs == st.groups
        C  == GetConjID(GroupCurrent(gs[1]))
    IN  IF GetConjID(GroupCurrent(gs[K])) = C
        THEN LET excluded == \E g \in 1..K : \E i \in DOMAIN gs[g] :
                                /\ Live(gs[g][i])
                                /\ GetConjID(CurEntry(gs[g][i])) = C
                                /\ ~IsInclude(CurEntry(gs[g][i]))
                 moved    == [g \in DOMAIN gs |-> AdvancePast(gs[g], C)]
             IN  [groups |-> moved, out |-> IF excluded THEN st.out ELSE Append(st.out, C)]
        ELSE LET target == GetConjID(GroupCurrent(gs[K]))
             IN  [groups |-> [g \in DOMAIN gs |->
                                IF g < K THEN [i \in DOMAIN gs[g] |-> SkipTo(gs[g][i], target)]
                                ELSE gs[g]],
                  out |-> st.out]

RKNormal(groups) == SortGroups(SelectSeq(groups, GroupLive))

RECURSIVE retrieveKLoop(_, _)
retrieveKLoop(st, K) ==
    LET gs == RKNormal(st.groups) IN
    IF Len(gs) < K THEN st.out
    ELSE retrieveKLoop(retrieveKStep([st EXCEPT !.groups = gs], K), K)

\* retrieveK(groups, K): the ConjunctionIDs emitted, in emission order
retrieveK(groups, K) == retrieveKLoop([groups |-> groups, out |-> << >>], K)

(***************************************************************************)
(* Result collector (deduplicating) and the Retrieve facade.               *)
(***************************************************************************)
\* faulty variant: the collector keeps every id it is given
CollectorAdd_NoDedup(c, docID) == Append(c, docID)

CollectorAdd(c, docID) == IF docID \in Range(c) THEN c ELSE Append(c, docID)

RECURSIVE CollectConjs(_, _)
CollectConjs(c, conjIDs) ==
    IF conjIDs = << >> THEN c
    ELSE CollectConjs(CollectorAdd(c, ConjDocID(Head(conjIDs))), Tail(conjIDs))

RECURSIVE CollectEntries(_, _)
CollectEntries(c, entries) ==
    IF entries = << >> THEN c
    ELSE CollectEntries(CollectorAdd(c, ConjDocID(GetConjID(Head(entries)))), Tail(entries))

\* the cursor groups of one container for the assignment: [err, groups]
RECURSIVE GroupsOf(_, _, _, _)
GroupsOf(h, fd, queries, fields) ==
    IF fields = << >> THEN [err |-> FALSE, groups |-> << >>]
    ELSE LET f == Head(fields) IN
         IF f \notin DOMAIN fd THEN GroupsOf(h, fd, queries, Tail(fields))
         ELSE LET r == GetEntries(h, fd[f], queries[f]) IN
              IF r.err THEN [err |-> TRUE, groups |-> << >>]
              ELSE LET rest == GroupsOf(h, fd, queries, Tail(fields)) IN
                   IF rest.err THEN rest
                   ELSE [err |-> FALSE,
                         groups |-> (IF r.r = << >> THEN << >> ELSE <<r.r>>) \o rest.groups]

RECURSIVE RetrieveFrom(_, _, _, _, _)
RetrieveFrom(ix, fd, queries, ks, c) ==
    IF ks = << >> THEN [err |-> FALSE, result |-> c]
    ELSE LET K == Head(ks)
             g == GroupsOf(ix.containers[K], fd, queries,
                           SelectSeq(FieldSeq, LAMBDA f : f \in DOMAIN queries))
         IN  IF g.err THEN [err |-> TRUE, result |-> << >>]
             ELSE RetrieveFrom(ix, fd, queries, Tail(ks), CollectConjs(c, retrieveK(g.groups, K)))

\* Retrieve(queries) on index object ix, fd being the field descriptors it sees:
\* the wildcard entries are hits whatever the assignment, then every size K >= 1
Retrieve(ix, fd, queries) ==
    RetrieveFrom(ix, fd, queries, SetToSeq(DOMAIN ix.containers \ {0}),
                 CollectEntries(<< >>, ix.wildcardEntries))

(***************************************************************************)
(* Inputs.                                                                 *)
(***************************************************************************)
FieldOptions == {[Parser |-> "", Container |-> ""], [Parser |-> "", Container |-> HolderNameDefault]}

WildcardDoc(id, n) == Doc(id, [i \in 1..n |-> EmptyConj])

\* documents of the builder specification: plain, excluding, failing, wildcard
\* and the ones validDocument is about
DocsBuild ==
    { Doc(2, <<Conj1("A", <<In(<<1>>)>>)>>),
      Doc(1, <<Conj2("A", <<In(<<1, 2>>)>>, "B", <<NotIn(<<1>>)>>)>>),
      Doc(3, <<Conj1("A", <<In(<<1>>)>>), Conj2("A", <<In(<<BadValue>>)>>, "B", <<In(<<1>>)>>)>>),
      Doc(4, <<Conj1("B", <<NotIn(<<BadValue>>)>>), Conj1("A", <<In(<<2>>)>>)>>),
      Doc(5, <<EmptyConj>>),
      WildcardDoc(7, 0) }

\* documents of the validation specification: 0, 255 and 256 conjunctions
DocsValid ==
    { Doc(2, <<Conj1("A", <<In(<<1>>)>>)>>),
      WildcardDoc(7, 0),
      WildcardDoc(8, MaxDocConjs),
      WildcardDoc(9, MaxDocConjs + 1) }

\* documents of the query specification: include-only conjunctions, one
\* expression per field (the corpus of TestBEIndex_Retrieve2), conjunctions
\* with one include and one exclude, and K = 0 conjunctions
IncludeDocs ==
    { Doc(1, <<Conj1("A", <<In(<<1>>)>>)>>),
      Doc(1, <<Conj2("A", <<In(<<1, 2>>)>>, "B", <<In(<<2>>)>>)>>),
      Doc(2, <<Conj1("B", <<In(<<1>>)>>)>>),
      Doc(2, <<Conj2("A", <<In(<<2>>)>>, "B", <<In(<<1, 2>>)>>)>>),
      Doc(3, <<Conj1("A", <<In(<<2>>)>>), Conj2("A", <<In(<<1>>)>>, "B", <<In(<<1>>)>>)>>) }
ExcludeDocs ==
    { Doc(4, <<Conj2("A", <<In(<<1>>)>>, "B", <<NotIn(<<2>>)>>)>>),
      Doc(1, <<Conj2("A", <<In(<<2>>)>>, "B", <<NotIn(<<1>>)>>)>>) }
WildcardDocs ==
    { Doc(5, <<EmptyConj>>),
      Doc(6, <<Conj1("B", <<NotIn(<<1>>)>>)>>) }
\* one conjunction listing the same value twice
DupDocs ==
    { Doc(7, <<Conj1("A", <<In(<<1, 1>>)>>)>>) }
DocsQuery == IncludeDocs \cup ExcludeDocs \cup WildcardDocs \cup DupDocs

\* documents of the cache specification: ids are unique, so a cache entry is
\* only hit by the conjunction that wrote it
DocsCache ==
    { Doc(1, <<Conj1("A", <<In(<<1>>)>>)>>),
      Doc(2, <<Conj2("A", <<In(<<1>>), NotIn(<<2>>)>>, "B", <<In(<<2>>)>>)>>),
      Doc(3, <<Conj2("A", <<In(<<2>>)>>, "B", <<NotIn(<<1>>)>>), EmptyConj>>) }

\* query assignments: field -> values, over well-typed values
QueryValues == {<<1>>, <<2>>, <<1, 2>>}
Queries == UNION {[S -> QueryValues] : S \in SUBSET Fields}

(***************************************************************************)
(* State machine.                                                          *)
(***************************************************************************)
Cur == Len(indexes)
Builder == [fieldsData |-> fieldsData, ix |-> indexes[Cur], cache |-> builderCache]
TotalAdds == SumSeq([i \in DOMAIN indexes |-> Len(indexes[i].docs)])

Ret(op, arg, err, panic, result) ==
    [op |-> op, arg |-> arg, err |-> err, panic |-> panic, result |-> result]

\* no call on a holder outside an index
NoCall == [pc |-> "idle", desc |-> [ID |-> 0, Field |-> ""], assigns |-> << >>, vi |-> 0,
           r |-> << >>, err |-> FALSE, h0 |-> NewDefaultEntriesHolder, overlap |-> FALSE]
\* outcome of a build-side call: its arguments, its error, h.plEntries before
\* it and, as history, the number n of calls made so far
HArg(key, desc, values, id) == [key |-> key, desc |-> desc, values |-> values, id |-> id]
NoHArg == HArg(<<0, 0>>, [ID |-> 0, Field |-> ""], << >>, 0)
HRet(op, arg, err, before, n) == [op |-> op, arg |-> arg, err |-> err, before |-> before, n |-> n]
Goroutines == {"g1", "g2"}
InitHolder ==
    /\ holder = NewDefaultEntriesHolder
    /\ hret = HRet("New", NoHArg, FALSE, << >>, 0)
    /\ calls = [g \in Goroutines |-> NoCall]

\* NewIndexerBuilder(opts...)
InitBuilderOf(types, caches, behaviors) ==
    /\ fieldsData = << >>
    /\ indexerType \in types
    /\ indexes = <<initIndexer(indexerType)>>
    /\ builderCache \in caches
    /\ badConjBehavior \in behaviors
    /\ ret = Ret("New", 0, FALSE, FALSE, << >>)

InitBuilder(caches, behaviors) == InitBuilderOf({IndexerTypeDefault}, caches, behaviors)

\* the collector pool before its first use; no collector made yet
PRet(op, content, used) == [op |-> op, content |-> content, used |-> used]
InitPool ==
    /\ collectors = << >>
    /\ pool = {}
    /\ held = [g \in Goroutines |-> {}]
    /\ putting = [g \in Goroutines |-> 0]
    /\ pret = PRet("New", << >>, FALSE)

\* no retrieveK run
NoRun == [pc |-> "idle", K |-> 0, input |-> << >>, groups |-> << >>, out |-> << >>,
          skipped |-> FALSE, vetoed |-> FALSE]
InitRK == rk = NoRun

InitWith(caches, behaviors) == InitBuilder(caches, behaviors) /\ InitHolder /\ InitPool /\ InitRK

Init == InitWith({NoCache}, {ErrorBadConj, SkipBadConj, PanicBadConj})

\* ConfigField(field, settings): panics when configureField fails
ConfigField(field, settings) ==
    LET r == configureField(fieldsData, field, settings) IN
    /\ fieldsData' = r.fieldsData
    /\ ret' = Ret("ConfigField", 0, r.err, r.err, << >>)
    /\ UNCHANGED <<indexes, builderCache, badConjBehavior, indexerType>>
    /\ UNCHANGED notBuilder

\* AddDocument(doc)
AddDocument(doc) ==
    /\ UNCHANGED notBuilder
    /\ IF validDocument(doc)
       THEN /\ ret' = Ret("AddDocument", doc.ID, TRUE, FALSE, << >>)
            /\ UNCHANGED <<fieldsData, indexes, builderCache, badConjBehavior, indexerType>>
       ELSE /\ TotalAdds < MaxAdds
            /\ \E o \in buildDocEntries(Builder, badConjBehavior, doc) :
                   /\ fieldsData' = o.b.fieldsData
                   /\ indexes' = [indexes EXCEPT ![Cur] = [o.b.ix EXCEPT !.docs = Append(@, doc)]]
                   /\ builderCache' = o.b.cache
                   /\ ret' = Ret("AddDocument", doc.ID, o.err, o.panic, << >>)
            /\ UNCHANGED <<badConjBehavior, indexerType>>

\* BuildIndex(): returns b.indexer itself
BuildIndex ==
    /\ indexes' = [indexes EXCEPT ![Cur] =
                      [compileIndexer(setFieldDesc(@)) EXCEPT !.returned = TRUE,
                                                              !.nbuilt = Len(indexes[Cur].docs)]]
    /\ ret' = Ret("BuildIndex", 0, FALSE, FALSE, << >>)
    /\ UNCHANGED <<fieldsData, builderCache, badConjBehavior, indexerType>>
    /\ UNCHANGED notBuilder

\* faulty variant: the provider is left as it is
CacheReset_Kept(cache) == cache

\* b.builderCache.Reset() when a provider is configured
CacheReset(cache) == IF cache.provider THEN EmptyCache ELSE cache

\* Reset(): initIndexer makes b.indexer a new index object, the cache provider is
\* reset; the old object stays only if BuildIndex handed it to a caller
Reset ==
    /\ Cardinality({i \in DOMAIN indexes : indexes[i].returned}) < MaxResets + 1
    /\ indexes' = IF indexes[Cur].returned
                  THEN Append(indexes, initIndexer(indexerType))
                  ELSE [indexes EXCEPT ![Cur] = initIndexer(indexerType)]
    /\ builderCache' = CacheReset(builderCache)
    /\ ret' = Ret("Reset", 0, FALSE, FALSE, << >>)
    /\ UNCHANGED <<fieldsData, badConjBehavior, indexerType>>
    /\ UNCHANGED notBuilder

\* the field descriptors index object ix sees: the builder's map, by reference
FieldsSeenBy(ix) == IF ix.fieldsRef THEN fieldsData ELSE << >>

\* index.Retrieve(queries) on an index BuildIndex returned.  Retrieve changes
\* nothing but its result, so a query that follows a query reaches the state the
\* query alone reaches: only the first of a run of queries is explored.
RetrieveCall(i, queries) ==
    /\ indexes[i].returned
    /\ ret.op # "Retrieve"
    /\ LET r == Retrieve(indexes[i], FieldsSeenBy(indexes[i]), queries)
       IN  ret' = Ret("Retrieve", [ix |-> i, queries |-> queries], r.err, FALSE, r.result)
    /\ UNCHANGED <<fieldsData, indexes, builderCache, badConjBehavior, indexerType>>
    /\ UNCHANGED notBuilder

Next ==
    \/ \E f \in Fields, o \in FieldOptions : ConfigField(f, o)
    \/ \E d \in DocsBuild : AddDocument(d)
    \/ BuildIndex
    \/ Reset

Spec == Init /\ [][Next]_vars

\* documents with 0, 255 and 256 conjunctions
NextValid ==
    \/ \E f \in Fields, o \in FieldOptions : ConfigField(f, o)
    \/ \E d \in DocsValid : AddDocument(d)
    \/ BuildIndex

SpecValid == Init /\ [][NextValid]_vars

\* a builder with a cache provider
InitCache == InitWith({EmptyCache}, {ErrorBadConj})

NextCache ==
    \/ \E d \in DocsCache : AddDocument(d)
    \/ BuildIndex
    \/ Reset

SpecCache == InitCache /\ [][NextCache]_vars

\* builders of either indexer type, with and without a cache provider, that
\* are reset between documents; one document has a failing conjunction
DocsReset ==
    DocsCache \cup
    { Doc(4, <<Conj1("A", <<In(<<1>>)>>), Conj2("A", <<In(<<BadValue>>)>>, "B", <<In(<<1>>)>>)>>) }

InitReset ==
    /\ InitBuilderOf({IndexerTypeDefault, IndexerTypeCompact}, {NoCache, EmptyCache},
                     {ErrorBadConj, SkipBadConj})
    /\ InitHolder /\ InitPool /\ InitRK

NextReset ==
    \/ \E f \in Fields, o \in FieldOptions : ConfigField(f, o)
    \/ \E d \in DocsReset : AddDocument(d)
    \/ BuildIndex
    \/ Reset

SpecReset == InitReset /\ [][NextReset]_vars

(***************************************************************************)
(* Concurrent GetEntries calls on a compiled holder.                       *)
(***************************************************************************)
DescA == [ID |-> 0, Field |-> "A"]
DescB == [ID |-> 1, Field |-> "B"]
FieldDescs == {DescA, DescB}
Eid(docID, incl) == NewEntryID(NewConjID(docID, 0, 1), incl)

\* the holder after the AddFieldEID calls adds and CompileEntries
RECURSIVE AddAll(_, _)
AddAll(pl, adds) ==
    IF adds = << >> THEN pl
    ELSE AddAll(AddFieldEID(pl, Head(adds)[1], Head(adds)[2], Head(adds)[3]).pl, Tail(adds))
HolderOf(adds) ==
    CompileEntries([NewDefaultEntriesHolder EXCEPT !.plEntries = AddAll(<< >>, adds)])

ReadHolders ==
    { HolderOf(<<<<DescA, <<1, 2>>, Eid(2, TRUE)>>, <<DescA, <<1>>, Eid(1, TRUE)>>,
                 <<DescB, <<2>>, Eid(1, FALSE)>>>>),
      HolderOf(<<<<DescB, <<1>>, Eid(2, TRUE)>>, <<DescA, <<2>>, Eid(2, TRUE)>>>>) }
ReadAssigns == {<<1>>, <<1, 2>>, <<1, BadValue>>, <<BadValue, 1>>}

InitRead ==
    /\ InitBuilder({NoCache}, {ErrorBadConj}) /\ InitPool /\ InitRK
    /\ holder \in ReadHolders
    /\ hret = HRet("CompileEntries", NoHArg, FALSE, << >>, 0)
    /\ calls = [g \in Goroutines |-> NoCall]

\* goroutine g enters GetEntries(desc, assigns)
GetEntriesCall(g, desc, assigns) ==
    /\ calls[g].pc = "idle"
    /\ calls' = [calls EXCEPT ![g] = [NoCall EXCEPT !.pc = "loop", !.desc = desc, !.assigns = assigns,
                                                    !.vi = 1, !.h0 = holder]]
    /\ UNCHANGED <<notHolder, holder, hret>>

\* goroutine g runs one turn of the loop of its call, or returns; overlap
\* records that the turn was taken while another call was under way
GetEntriesRun(g) ==
    /\ calls[g].pc = "loop"
    /\ LET st     == GetEntriesStep(holder, calls[g])
           others == {o \in Goroutines \ {g} : calls[o].pc = "loop" /\ calls[o].vi > 1}
       IN  /\ holder' = st.h
           /\ calls' = [x \in Goroutines |->
                          IF x = g THEN [st.c EXCEPT !.overlap = @ \/ others # {}]
                          ELSE IF x \in others THEN [calls[x] EXCEPT !.overlap = TRUE]
                          ELSE calls[x]]
    /\ UNCHANGED <<notHolder, hret>>

NextRead ==
    \/ \E g \in Goroutines, d \in FieldDescs, a \in ReadAssigns : GetEntriesCall(g, d, a)
    \/ \E g \in Goroutines : GetEntriesRun(g)

SpecRead == InitRead /\ [][NextRead]_vars

(***************************************************************************)
(* Collector pool (sync.Pool of DocIDCollector).  A collector object is    *)
(* [content, used]: the ids it holds and, as history, whether an id was    *)
(* ever added to it.  A goroutine adds to and puts back the collectors it  *)
(* holds: the ones it picked and has not put back.                         *)
(***************************************************************************)
Nil == 0
NewDocIDCollector == [content |-> << >>, used |-> FALSE]
CollectorReset(c) == [c EXCEPT !.content = << >>]
DocIDs == {1, 2}

\* faulty variant: the collector goes back to the pool as it is
ResetOnPut_Skipped(cs, c) == cs

\* c.Reset() in PutCollector
ResetOnPut(cs, c) == [cs EXCEPT ![c] = CollectorReset(@)]

InitPoolUse == InitBuilder({NoCache}, {ErrorBadConj}) /\ InitHolder /\ InitPool /\ InitRK

\* PickCollector(): collectorPool.Get() hands out a pooled collector or, the
\* pool being free to come up empty, one that New makes
PickCollector(g) ==
    /\ putting[g] = Nil
    /\ \/ \E c \in pool :
            /\ pool' = pool \ {c}
            /\ held' = [held EXCEPT ![g] = @ \cup {c}]
            /\ pret' = PRet("Pick", collectors[c].content, collectors[c].used)
            /\ UNCHANGED collectors
       \/ /\ Len(collectors) < MaxCollectors
          /\ collectors' = Append(collectors, NewDocIDCollector)
          /\ held' = [held EXCEPT ![g] = @ \cup {Len(collectors) + 1}]
          /\ pret' = PRet("Pick", NewDocIDCollector.content, FALSE)
          /\ UNCHANGED pool
    /\ UNCHANGED <<notPool, putting>>

\* collector.Add(docID) on a collector the goroutine holds
AddToCollector(g, c, docID) ==
    /\ putting[g] = Nil
    /\ c \in held[g]
    /\ collectors' = [collectors EXCEPT ![c] = [content |-> CollectorAdd(@.content, docID), used |-> TRUE]]
    /\ pret' = PRet("Add", << >>, FALSE)
    /\ UNCHANGED <<notPool, pool, held, putting>>

\* PutCollector(c) up to c.Reset(); c is nil or a collector the goroutine holds
PutCollector(g, c) ==
    /\ putting[g] = Nil
    /\ IF c = Nil
       THEN /\ pret' = PRet("PutNil", << >>, FALSE)
            /\ UNCHANGED <<collectors, pool, held, putting>>
       ELSE /\ collectors' = ResetOnPut(collectors, c)
            /\ held' = [held EXCEPT ![g] = @ \ {c}]
            /\ putting' = [putting EXCEPT ![g] = c]
            /\ pret' = PRet("Reset", << >>, FALSE)
            /\ UNCHANGED pool
    /\ UNCHANGED notPool

\* PutCollector(c): collectorPool.Put(c)
PoolPut(g) ==
    /\ putting[g] # Nil
    /\ pool' = pool \cup {putting[g]}
    /\ putting' = [putting EXCEPT ![g] = Nil]
    /\ pret' = PRet("Put", << >>, FALSE)
    /\ UNCHANGED <<notPool, collectors, held>>

NextPool ==
    \/ \E g \in Goroutines : PickCollector(g)
    \/ \E g \in Goroutines, d \in DocIDs : \E c \in held[g] : AddToCollector(g, c, d)
    \/ \E g \in Goroutines : \E c \in held[g] \cup {Nil} : PutCollector(g, c)
    \/ \E g \in Goroutines : PoolPut(g)

SpecPool == InitPoolUse /\ [][NextPool]_vars

(***************************************************************************)
(* retrieveK called on cursor groups, as TestBEIndex_Retrieve3 does: the   *)
(* groups of one container, every entry a conjunction of size K.           *)
(***************************************************************************)
\* posting lists as (DocID, include) pairs, sorted by EntryID
ListShapes ==
    << <<<<1, TRUE>>, <<2, TRUE>>, <<3, TRUE>>>>,
       <<<<2, TRUE>>>>,
       <<<<1, TRUE>>, <<3, TRUE>>>>,
       <<<<2, FALSE>>, <<3, TRUE>>>>,
       <<<<1, FALSE>>>> >>
EntriesOf(shape, K) == [i \in DOMAIN shape |-> NewEntryID(NewConjID(shape[i][1], 0, K), shape[i][2])]
\* a group is one or two posting lists, each under a cursor
GroupShapes ==
    {<<ListShapes[a]>> : a \in DOMAIN ListShapes} \cup
    {<<ListShapes[p[1]], ListShapes[p[2]]>> :
        p \in {x \in (DOMAIN ListShapes) \X (DOMAIN ListShapes) : x[1] < x[2]}}
CursorGroupOf(gshape, K) == [i \in DOMAIN gshape |-> NewEntriesCursor(<<"f", i>>, EntriesOf(gshape[i], K))]
GroupLists == UNION {[1..n -> GroupShapes] : n \in 1..3}
RKSizes == {1, 2}

InitRetrieveK == InitBuilder({NoCache}, {ErrorBadConj}) /\ InitHolder /\ InitPool /\ InitRK

\* retrieveK(groups, K) is entered
RetrieveKCall(gl, K) ==
    /\ rk.pc = "idle"
    /\ rk' = [NoRun EXCEPT !.pc = "run", !.K = K,
                           !.input = [g \in DOMAIN gl |-> CursorGroupOf(gl[g], K)],
                           !.groups = [g \in DOMAIN gl |-> CursorGroupOf(gl[g], K)]]
    /\ UNCHANGED notRK

\* one turn of the loop of retrieveK: the groups without a live cursor are
\* dropped and the rest sorted, then the loop ends or takes its step
RetrieveKTurn ==
    /\ rk.pc = "run"
    /\ \E gs \in {RKNormal(rk.groups)} :
          IF Len(gs) < rk.K
          THEN rk' = [rk EXCEPT !.pc = "done", !.groups = gs]
          ELSE \E st \in {retrieveKStep([groups |-> gs, out |-> rk.out], rk.K)} :
               \E agree \in {GetConjID(GroupCurrent(gs[rk.K])) = GetConjID(GroupCurrent(gs[1]))} :
                   rk' = [rk EXCEPT !.groups = st.groups, !.out = st.out,
                                    !.skipped = @ \/ ~agree,
                                    !.vetoed = @ \/ (agree /\ st.out = rk.out)]
    /\ UNCHANGED notRK

NextRetrieveK ==
    \/ \E gl \in GroupLists, K \in RKSizes : RetrieveKCall(gl, K)
    \/ RetrieveKTurn

SpecRetrieveK == InitRetrieveK /\ [][NextRetrieveK]_vars

\* the runs with as many groups as K.  The loop is a plain for loop in one
\* goroutine: a turn that can be taken is taken.
NextRetrieveKFair ==
    \/ \E K \in RKSizes : \E gl \in [1..K -> GroupShapes] : RetrieveKCall(gl, K)
    \/ RetrieveKTurn

SpecRetrieveKFair == InitRetrieveK /\ [][NextRetrieveKFair]_vars /\ WF_vars(RetrieveKTurn)

(***************************************************************************)
(* Build-side calls made directly on a holder, before it is compiled.      *)
(***************************************************************************)
HolderEIDs == {Eid(2, TRUE), Eid(1, TRUE), Eid(1, FALSE)}
HolderKeys == {NewKey(d.ID, TokenOf(v)) : d \in FieldDescs, v \in 1..MaxVal}
HolderValues == {<<1>>, <<2, 1>>, <<1, 1>>, <<1, BadValue>>, <<BadValue, 1>>}

InitHolderUse == InitBuilder({NoCache}, {ErrorBadConj}) /\ InitHolder /\ InitPool /\ InitRK

\* h.AppendEntryID(key, id)
AppendEntryIDCall(key, id) ==
    /\ hret.op # "CompileEntries" /\ hret.n < MaxHolderCalls
    /\ holder' = [holder EXCEPT !.plEntries = AppendEntryID(@, key, id)]
    /\ hret' = HRet("AppendEntryID", HArg(key, NoHArg.desc, << >>, id), FALSE, holder.plEntries, hret.n + 1)
    /\ UNCHANGED <<notHolder, calls>>

\* h.AddFieldEID(field, values, eid)
AddFieldEIDCall(desc, values, eid) ==
    /\ hret.op # "CompileEntries" /\ hret.n < MaxHolderCalls
    /\ LET r == AddFieldEID(holder.plEntries, desc, values, eid)
       IN  /\ holder' = [holder EXCEPT !.plEntries = r.pl]
           /\ hret' = HRet("AddFieldEID", HArg(NoHArg.key, desc, values, eid), r.err, holder.plEntries,
                           hret.n + 1)
    /\ UNCHANGED <<notHolder, calls>>

\* h.CompileEntries(); no build-side call is made after it
CompileEntriesCall ==
    /\ hret.op # "CompileEntries"
    /\ holder' = CompileEntries(holder)
    /\ hret' = HRet("CompileEntries", NoHArg, FALSE, holder.plEntries, hret.n)
    /\ UNCHANGED <<notHolder, calls>>

NextHolder ==
    \/ \E key \in HolderKeys, id \in HolderEIDs : AppendEntryIDCall(key, id)
    \/ \E d \in FieldDescs, v \in HolderValues, id \in HolderEIDs : AddFieldEIDCall(d, v, id)
    \/ CompileEntriesCall

SpecHolder == InitHolderUse /\ [][NextHolder]_vars

\* build a corpus, then query it
InitQuery == InitWith({NoCache}, {ErrorBadConj})

NextQuery ==
    \/ \E d \in DocsQuery : AddDocument(d)
    \/ BuildIndex
    \/ \E i \in DOMAIN indexes, q \in Queries : RetrieveCall(i, q)

SpecQuery == InitQuery /\ [][NextQuery]_vars

(***************************************************************************)
(* Brute-force evaluator of TestBEIndex_Retrieve2 (MockTargeting.Match):   *)
(* every predicate of the conjunction has a value among the query's values *)
(* of its field.                                                           *)
(***************************************************************************)
QueryOf(queries, f) == IF f \in DOMAIN queries THEN Range(queries[f]) ELSE {}
valueMatch(values, queried) == values = {} \/ (values \cap queried # {})
ConjMatch(conj, queries) ==
    \A f \in DOMAIN conj : \A i \in DOMAIN conj[f] :
        valueMatch(Range(conj[f][i].Value), QueryOf(queries, f))
DocMatch(doc, queries) == \E i \in DOMAIN doc.Cons : ConjMatch(doc.Cons[i], queries)

\* the last call was a Retrieve on an index that was compiled after its last document
QueriedBuilt ==
    /\ ret.op = "Retrieve"
    /\ indexes[ret.arg.ix].nbuilt = Len(indexes[ret.arg.ix].docs)
Corpus == Range(indexes[ret.arg.ix].docs)
Hits == Range(ret.result)

\* C1: oracle equivalence.  On an index built from a corpus of include-only
\* documents, Retrieve returns exactly the ids of the documents that have a
\* conjunction the brute-force evaluator finds satisfied by the assignment.
C1_OracleEquivalence ==
    (QueriedBuilt /\ Corpus \subseteq IncludeDocs)
        => /\ ~ret.err
           /\ Hits = {d.ID : d \in {x \in Corpus : DocMatch(x, ret.arg.queries)}}

\* a query on a two-document corpus that one document matches and the other,
\* of another id, does not
C1_Witness ==
    /\ QueriedBuilt /\ Corpus \subseteq IncludeDocs
    /\ \E d1, d2 \in Corpus :
          /\ d1.ID # d2.ID
          /\ Len(d1.Cons) = 2
          /\ DocMatch(d1, ret.arg.queries) /\ d1.ID \in Hits
          /\ ~DocMatch(d2, ret.arg.queries) /\ d2.ID \notin Hits

\* the documents of the corpus with one conjunction made of one include on
\* "A" and one exclude on "B", whose id no other document of the corpus has
InclExclDocs ==
    {d \in Corpus :
        /\ Len(d.Cons) = 1 /\ DOMAIN d.Cons[1] = {"A", "B"}
        /\ Len(d.Cons[1]["A"]) = 1 /\ d.Cons[1]["A"][1].Incl
        /\ Len(d.Cons[1]["B"]) = 1 /\ ~d.Cons[1]["B"][1].Incl
        /\ \A x \in Corpus : x.ID = d.ID => x = d}
AssignHas(queries, f, values) == Range(values) \cap QueryOf(queries, f) # {}

\* C2: exclusion semantics.  A conjunction with one include on A and one
\* exclude on B is a hit iff the assignment has the A value and does not
\* have the B value.
C2_Exclusion ==
    QueriedBuilt =>
        \A d \in InclExclDocs :
            d.ID \in Hits <=> /\ AssignHas(ret.arg.queries, "A", d.Cons[1]["A"][1].Value)
                              /\ ~AssignHas(ret.arg.queries, "B", d.Cons[1]["B"][1].Value)

\* the assignment has both the included and the excluded value, and the
\* document is not returned
C2_Witness ==
    /\ QueriedBuilt
    /\ \E d \in InclExclDocs :
          /\ AssignHas(ret.arg.queries, "A", d.Cons[1]["A"][1].Value)
          /\ AssignHas(ret.arg.queries, "B", d.Cons[1]["B"][1].Value)
          /\ d.ID \notin Hits

\* C3: wildcard.  A document with a K = 0 conjunction is returned by every
\* Retrieve, the empty assignment included, whatever else was added to the index.
HasWildcardConj(d) == \E i \in DOMAIN d.Cons : CalcConjSize(d.Cons[i]) = 0
C3_Wildcard ==
    ret.op = "Retrieve" =>
        /\ ~ret.err
        /\ \A d \in Corpus : HasWildcardConj(d) => d.ID \in Hits

\* the empty assignment on an index holding a K = 0 document between two others
C3_Witness ==
    /\ ret.op = "Retrieve" /\ DOMAIN ret.arg.queries = {}
    /\ \E d \in Corpus : HasWildcardConj(d) /\ d.ID \in Hits
    /\ \E d \in Corpus : ~HasWildcardConj(d)

(***************************************************************************)
(* What a caller observes through an index object.                         *)
(***************************************************************************)
PostingLists(ix) == [k \in DOMAIN ix.containers |-> ix.containers[k].plEntries]
Observed(ix, fd) ==
    [lists |-> PostingLists(ix), wildcard |-> ix.wildcardEntries,
     fields |-> IF ix.fieldsRef THEN fd ELSE << >>]

\* C4: immutability after build.  No step changes the posting lists, the
\* wildcard bucket or the field descriptors of an index BuildIndex returned.
C4_ImmutableAfterBuild ==
    [][\A i \in DOMAIN indexes :
          indexes[i].returned =>
              /\ i \in DOMAIN indexes'
              /\ Observed(indexes'[i], fieldsData') = Observed(indexes[i], fieldsData)]_vars

IsSorted(entries) == \A i \in 1..(Len(entries) - 1) : entries[i] <= entries[i + 1]
HolderSorted(h) == \A key \in DOMAIN h.plEntries : IsSorted(h.plEntries[key])

\* C5: sortedness.  Every posting list of every holder of an index that can
\* be queried (BuildIndex returned it) is sorted ascending by EntryID.
C5_Sortedness ==
    \A i \in DOMAIN indexes :
        indexes[i].returned => \A k \in DOMAIN indexes[i].containers : HolderSorted(indexes[i].containers[k])

\* what C5 says of the step itself: BuildIndex leaves every list of the
\* builder's index sorted, however the entries were inserted
C5_SortedByCompile ==
    ret.op = "BuildIndex" => \A k \in DOMAIN indexes[Cur].containers : HolderSorted(indexes[Cur].containers[k])

(***************************************************************************)
(* The same documents built without a cache provider, the fields having    *)
(* the ids they have in the builder.                                       *)
(***************************************************************************)
RECURSIVE NoCacheBuild(_, _)
NoCacheBuild(b, docs) ==
    IF docs = << >> THEN b
    ELSE NoCacheBuild((CHOOSE o \in buildDocEntries(b, ErrorBadConj, Head(docs)) : TRUE).b, Tail(docs))

SortedLists(ix) ==
    [k \in DOMAIN ix.containers |->
        [key \in DOMAIN ix.containers[k].plEntries |-> SortEntries(ix.containers[k].plEntries[key])]]

\* C6: cache equivalence.  Building with a cache provider commits, for every
\* holder and key, the posting lists that building the same documents without
\* a cache commits.
C6_CacheEquivalence ==
    builderCache.provider =>
        LET plain == NoCacheBuild([fieldsData |-> fieldsData, ix |-> NewKGroupsBEIndex, cache |-> NoCache],
                                  indexes[Cur].docs).ix
        IN  /\ SortedLists(indexes[Cur]) = SortedLists(plain)
            /\ indexes[Cur].wildcardEntries = plain.wildcardEntries

(***************************************************************************)
(* Entries of a document and failing conjunctions.                         *)
(***************************************************************************)
AllEntries(ix) ==
    Range(ix.wildcardEntries) \cup
    UNION {UNION {Range(ix.containers[k].plEntries[key]) : key \in DOMAIN ix.containers[k].plEntries}
           : k \in DOMAIN ix.containers}
ConjFails(conj) ==
    \E f \in DOMAIN conj : \E i \in DOMAIN conj[f] : ParseValues(conj[f][i].Value).err
LastDoc == indexes[Cur].docs[Len(indexes[Cur].docs)]
AddedDoc == ret.op = "AddDocument" /\ indexes[Cur].docs # << >> /\ LastDoc.ID = ret.arg

\* C7: with BadConjBehavior = Error, a failing conjunction makes AddDocument
\* return an error and no entry of the document is in any posting list or in
\* the wildcard bucket afterwards.
C7_ErrorAbortsDocument ==
    (badConjBehavior = ErrorBadConj /\ AddedDoc /\ \E i \in DOMAIN LastDoc.Cons : ConjFails(LastDoc.Cons[i]))
        => /\ ret.err
           /\ \A e \in AllEntries(indexes[Cur]) : ConjDocID(GetConjID(e)) # ret.arg

\* the entries conjunction idx of the document must have: for every
\* expression, its EntryID under every token of its values
ConjEntriesPresent(ix, fd, doc, idx) ==
    LET conj == doc.Cons[idx]
        K    == CalcConjSize(conj)
        cid  == NewConjID(doc.ID, idx - 1, K)
    IN  /\ K = 0 => NewEntryID(cid, TRUE) \in Range(ix.wildcardEntries)
        /\ \A f \in DOMAIN conj : \A i \in DOMAIN conj[f] :
              \A t \in Range(ParseValues(conj[f][i].Value).ids) :
                  /\ f \in DOMAIN fd
                  /\ K \in DOMAIN ix.containers
                  /\ NewKey(fd[f].ID, t) \in DOMAIN ix.containers[K].plEntries
                  /\ NewEntryID(cid, conj[f][i].Incl) \in Range(ix.containers[K].plEntries[NewKey(fd[f].ID, t)])

\* C8: with BadConjBehavior = Skip, AddDocument returns no error, a failing
\* conjunction leaves no entry in any holder or in the wildcard bucket, and
\* the other conjunctions of the document are indexed.
C8_SkipSkipsEntirely ==
    (badConjBehavior = SkipBadConj /\ AddedDoc)
        => /\ ~ret.err
           /\ \A i \in DOMAIN LastDoc.Cons :
                 IF ConjFails(LastDoc.Cons[i])
                 THEN \A e \in AllEntries(indexes[Cur]) :
                         GetConjID(e) # NewConjID(LastDoc.ID, i - 1, CalcConjSize(LastDoc.Cons[i]))
                 ELSE ConjEntriesPresent(indexes[Cur], fieldsData, LastDoc, i)

\* C9: document validation.  AddDocument returns an error for a document
\* with 0 or with more than 255 conjunctions and accepts one with 255; a
\* rejected document changes no index and configures no field.
ConjCountOf(id) == Len((CHOOSE d \in DocsValid : d.ID = id).Cons)
C9_Validation ==
    [][ret'.op = "AddDocument" =>
          /\ ConjCountOf(ret'.arg) \in {0, MaxDocConjs + 1} =>
                (ret'.err /\ indexes' = indexes /\ fieldsData' = fieldsData)
          /\ ConjCountOf(ret'.arg) = MaxDocConjs =>
                (~ret'.err /\ Len(indexes'[Cur].wildcardEntries) = Len(indexes[Cur].wildcardEntries) + MaxDocConjs)
      ]_vars

\* a document of 256 conjunctions was rejected by a builder that had accepted
\* the document of 255
C9_Witness ==
    /\ ret.op = "AddDocument" /\ ret.err /\ ConjCountOf(ret.arg) = MaxDocConjs + 1
    /\ Len(indexes[Cur].wildcardEntries) = MaxDocConjs
    /\ DOMAIN fieldsData = {}

\* C10: FieldID invariant.  The ids of the configured fields are pairwise
\* distinct and are exactly 0..n-1, and the id of a field never changes.
FieldIDsDense ==
    /\ {fieldsData[f].ID : f \in DOMAIN fieldsData} = 0..(Cardinality(DOMAIN fieldsData) - 1)
    /\ \A f, g \in DOMAIN fieldsData : fieldsData[f].ID = fieldsData[g].ID => f = g
FieldIDsStable ==
    \A f \in DOMAIN fieldsData : f \in DOMAIN fieldsData' /\ fieldsData'[f].ID = fieldsData[f].ID
C10_FieldIDs == []FieldIDsDense /\ [][FieldIDsStable]_vars

\* both fields configured, one of them by a failing conjunction, a Reset
\* behind, and the last call a configuration that failed
C10_Witness ==
    /\ DOMAIN fieldsData = Fields
    /\ Len(indexes) = 2
    /\ ret.op = "ConfigField" /\ ret.err
    /\ fieldsData["B"].ID = 0

\* C11: configuring a field that is already configured, by an earlier
\* ConfigField or by a document that referenced it, fails and leaves every
\* descriptor (id and options) as it was.
C11_ReconfigureFails ==
    [][\A f \in DOMAIN fieldsData : \A o \in FieldOptions :
          ConfigField(f, o) => (ret'.err /\ fieldsData' = fieldsData)]_vars

\* a configuration of "A" failed on a builder that has taken a document and
\* whose only field is "A", with the id it got first
C11_Witness ==
    /\ ret.op = "ConfigField" /\ ret.err
    /\ DOMAIN fieldsData = {"A"}
    /\ TotalAdds > 0
    /\ fieldsData["A"].ID = 0

\* C12: unique results.  The list Retrieve returns has no document id twice.
C12_UniqueResults ==
    ret.op = "Retrieve" =>
        \A i, j \in DOMAIN ret.result : i # j => ret.result[i] # ret.result[j]

HasDuplicate(entries) == \E i, j \in DOMAIN entries : i # j /\ entries[i] = entries[j]

\* a query returned both a document two conjunctions of which it satisfies
\* and a document whose EntryID is twice in a posting list of the index
C12_Witness ==
    /\ QueriedBuilt
    /\ \E d \in Corpus :
          /\ Len(d.Cons) = 2
          /\ \A i \in DOMAIN d.Cons : ConjMatch(d.Cons[i], ret.arg.queries)
          /\ d.ID \in Hits
    /\ \E d \in Corpus \cap DupDocs : d.ID \in Hits
    /\ \E k \in DOMAIN indexes[ret.arg.ix].containers :
          \E key \in DOMAIN indexes[ret.arg.ix].containers[k].plEntries :
              HasDuplicate(indexes[ret.arg.ix].containers[k].plEntries[key])

CallResult(c) == [err |-> c.err, r |-> c.r]

\* C13: concurrent read safety.  No step of a GetEntries call writes to the
\* holder, and a call that ran interleaved with others returns what
\* GetEntries returns when it runs alone on the holder the call started on.
C13_ConcurrentReads ==
    /\ [](\A g \in Goroutines :
            calls[g].pc = "done" =>
                CallResult(calls[g]) = GetEntries(calls[g].h0, calls[g].desc, calls[g].assigns))
    /\ [][holder' = holder]_vars

\* two calls that ran interleaved have both returned two cursors
C13_Witness ==
    \A g \in Goroutines :
        calls[g].pc = "done" /\ calls[g].overlap /\ Len(calls[g].r) = 2

\* C14: no partial result on the query path.  A GetEntries call returns an
\* error iff ParseAssign fails for one of its values, and then its cursor
\* group is empty.
C14_NoPartialResult ==
    \A g \in Goroutines :
        calls[g].pc = "done" =>
            /\ calls[g].err <=> \E i \in DOMAIN calls[g].assigns : ParseAssign(calls[g].assigns[i]).err
            /\ calls[g].err => calls[g].r = << >>

\* a call failed on its second value after its first value had found a
\* posting list
C14_Witness ==
    \E g \in Goroutines :
        /\ calls[g].pc = "done" /\ calls[g].err /\ calls[g].r = << >>
        /\ Len(calls[g].assigns) = 2
        /\ ~ParseAssign(calls[g].assigns[1]).err
        /\ CursorsOfIds(holder, calls[g].desc, calls[g].assigns[1],
                        ParseAssign(calls[g].assigns[1]).ids) # << >>

\* C15: collector pool.  Every collector PickCollector hands out is empty,
\* and PutCollector(nil) changes neither a collector nor the pool.
C15_PoolHandsOutEmpty ==
    /\ [](pret.op = "Pick" => pret.content = << >>)
    /\ [][pret'.op = "PutNil" =>
            <<collectors, pool, held, putting>>' = <<collectors, pool, held, putting>>]_vars

\* a collector that had held ids was handed out again, empty, while another
\* goroutine holds a collector with ids in it
C15_Witness ==
    /\ pret.op = "Pick" /\ pret.used /\ pret.content = << >>
    /\ \E g \in Goroutines : \E c \in held[g] : Len(collectors[c].content) = 2

(***************************************************************************)
(* What retrieveK has to emit for its input.                               *)
(***************************************************************************)
HasEntry(g, e) == \E i \in DOMAIN g : e \in Range(g[i].entries)
\* the entry is at or behind the position of a cursor of the group
EntryAhead(g, e) == \E i \in DOMAIN g : \E j \in g[i].pos..Len(g[i].entries) : g[i].entries[j] = e
ConjsOf(groups) ==
    {GetConjID(e) : e \in UNION {UNION {Range(groups[g][i].entries) : i \in DOMAIN groups[g]}
                                 : g \in DOMAIN groups}}
Satisfied(groups, K) ==
    {C \in ConjsOf(groups) :
        /\ ConjSize(C) = K
        /\ Cardinality({g \in DOMAIN groups : HasEntry(groups[g], NewEntryID(C, TRUE))}) >= K
        /\ \A g \in DOMAIN groups : ~HasEntry(groups[g], NewEntryID(C, FALSE))}

RECURSIVE RemainingIn(_)
RemainingIn(g) ==
    IF g = << >> THEN 0
    ELSE (IF Live(Head(g)) THEN Len(Head(g).entries) - Head(g).pos + 1 ELSE 0) + RemainingIn(Tail(g))
Remaining(groups) == SumSeq([g \in DOMAIN groups |-> RemainingIn(groups[g])])
LiveGroups(groups) == {g \in DOMAIN groups : GroupLive(groups[g])}

\* C17: retrieveK terminates.  Every turn of the loop that does not end it
\* moves at least one cursor forward, and the loop ends, with fewer than K
\* groups having a live cursor.
C17_RetrieveKTerminates ==
    /\ [][(rk.pc = "run" /\ rk'.pc = "run") => Remaining(rk'.groups) < Remaining(rk.groups)]_vars
    /\ [](rk.pc = "done" => Cardinality(LiveGroups(rk.groups)) < rk.K)
    /\ (rk.pc = "run") ~> (rk.pc = "done")

\* a run over two groups with K = 2 ended after an exclusion, a skip and a
\* hit had each moved cursors
C17_Witness ==
    /\ rk.pc = "done" /\ rk.K = 2 /\ Len(rk.input) = 2
    /\ rk.skipped /\ rk.vetoed /\ Len(rk.out) = 1
    /\ Cardinality(LiveGroups(rk.groups)) < rk.K

\* the entries in the field holders of an index, and the fields the
\* conjunctions of size K >= 1 of its documents name
HolderEntries(ix) ==
    UNION {UNION {Range(ix.containers[k].plEntries[key]) : key \in DOMAIN ix.containers[k].plEntries}
           : k \in DOMAIN ix.containers}
IndexedFields(ix) ==
    UNION {UNION {DOMAIN ix.docs[d].Cons[i] :
                    i \in {j \in DOMAIN ix.docs[d].Cons : CalcConjSize(ix.docs[d].Cons[j]) > 0}}
           : d \in DOMAIN ix.docs}
WildcardConjs(ix) ==
    {<<d, i>> \in UNION {{<<d, i>> : i \in DOMAIN ix.docs[d].Cons} : d \in DOMAIN ix.docs} :
        CalcConjSize(ix.docs[d].Cons[i]) = 0}

\* C18: K = 0 bypass.  A conjunction of size 0 adds one include EntryID to
\* the wildcard bucket and nothing else: no field holder has an entry of a
\* conjunction of size 0, and no field is configured because of one.
C18_WildcardBypass ==
    /\ \A x \in DOMAIN indexes :
          /\ \A e \in HolderEntries(indexes[x]) : ConjSize(GetConjID(e)) # 0
          /\ Len(indexes[x].wildcardEntries) = Cardinality(WildcardConjs(indexes[x]))
          /\ \A e \in Range(indexes[x].wildcardEntries) : IsInclude(e)
    /\ DOMAIN fieldsData \subseteq UNION {IndexedFields(indexes[x]) : x \in DOMAIN indexes}

Appended == hret.op = "AppendEntryID"
KeyWasAbsent == hret.arg.key \notin DOMAIN hret.before
OtherKeysKept ==
    /\ DOMAIN holder.plEntries = DOMAIN hret.before \cup {hret.arg.key}
    /\ \A k \in DOMAIN hret.before : k # hret.arg.key => holder.plEntries[k] = hret.before[k]

\* C19 as stated: AppendEntryID on an absent key leaves the id twice in the
\* list of the key, and on a present key appends it once.
C19_DoubleInsert ==
    Appended =>
        holder.plEntries[hret.arg.key] =
            IF KeyWasAbsent THEN <<hret.arg.id, hret.arg.id>>
            ELSE Append(hret.before[hret.arg.key], hret.arg.id)

\* C19, amended: AppendEntryID on an absent key leaves the list <<id>> (the
\* id once), on a present key it appends the id once; no other key changes.
C19_SingleInsert ==
    Appended =>
        /\ holder.plEntries[hret.arg.key] =
              IF KeyWasAbsent THEN <<hret.arg.id>>
              ELSE Append(hret.before[hret.arg.key], hret.arg.id)
        /\ OtherKeysKept

\* the second call appended to a key that the first call had found absent
C19_Witness ==
    /\ Appended /\ ~KeyWasAbsent /\ hret.n = 2
    /\ Len(hret.before[hret.arg.key]) = 1
    /\ Len(holder.plEntries[hret.arg.key]) = 2

\* C20: AddFieldEID is all-or-nothing.  It returns an error iff ParseValue
\* fails for one of the values, and then the posting lists are what they
\* were before the call.
C20_AllOrNothing ==
    hret.op = "AddFieldEID" =>
        /\ hret.err <=> \E i \in DOMAIN hret.arg.values : ParseValue(hret.arg.values[i]).err
        /\ hret.err => holder.plEntries = hret.before

(***************************************************************************)
(* Reset.                                                                  *)
(***************************************************************************)
\* the builders a new builder can become by adding docs in order
RECURSIVE FreshBuilds(_, _, _)
FreshBuilds(bs, bad, docs) ==
    IF docs = << >> THEN bs
    ELSE FreshBuilds(UNION {{o.b : o \in buildDocEntries(b, bad, Head(docs))} : b \in bs}, bad, Tail(docs))

\* a new builder of the same type, with a provider iff this one has one, and
\* the fields configured as they are in this one
NewBuilderLike ==
    [fieldsData |-> fieldsData, ix |-> initIndexer(indexerType),
     cache |-> IF builderCache.provider THEN EmptyCache ELSE NoCache]

ListsOf(ix) == [lists |-> SortedLists(ix), wildcard |-> ix.wildcardEntries, kind |-> ix.kind]

ConjIDsOf(doc) == {NewConjID(doc.ID, i - 1, CalcConjSize(doc.Cons[i])) : i \in DOMAIN doc.Cons}

\* right after Reset the builder's index is a new, empty one of its type and
\* the provider holds nothing
ResetFresh ==
    ret.op = "Reset" =>
        /\ indexes[Cur] = initIndexer(indexerType)
        /\ AllEntries(indexes[Cur]) = {}
        /\ builderCache.provider => builderCache.data = << >>

\* every cache entry was written for a document added to the current index
CacheSinceReset ==
    builderCache.provider =>
        \A conjID \in DOMAIN builderCache.data :
            \E i \in DOMAIN indexes[Cur].docs : conjID \in ConjIDsOf(indexes[Cur].docs[i])

\* the current index holds what a new builder gets from the same documents
SameAsNewBuilder ==
    ListsOf(indexes[Cur]) \in
        {ListsOf(b.ix) : b \in FreshBuilds({NewBuilderLike}, badConjBehavior, indexes[Cur].docs)}

ResetKeepsConfig ==
    ret'.op = "Reset" =>
        /\ UNCHANGED <<fieldsData, indexerType, badConjBehavior>>
        /\ builderCache'.provider = builderCache.provider

\* C21: after Reset the builder owns a new index without any entry, the cache
\* provider (when there is one) is empty, so that no later conjunction hits an
\* entry written before the Reset; fields, FieldIDs, indexer type and
\* BadConjBehavior are unchanged; the documents added after the Reset give
\* the posting lists a new builder with the same fields gives.
C21_Reset ==
    /\ []ResetFresh /\ []CacheSinceReset /\ []SameAsNewBuilder
    /\ [][ResetKeepsConfig]_vars

\* a document is added again after BuildIndex and Reset, the builder having a
\* cache provider and a configured field
C21_Witness ==
    /\ Cur = 2 /\ builderCache.provider /\ builderCache.data # << >>
    /\ indexes[1].docs # << >> /\ indexes[2].docs = indexes[1].docs
    /\ fieldsData # << >> /\ AllEntries(indexes[2]) # {}

====
